---- MODULE Spec2Model ----
(***************************************************************************)
(* The nfs-client provisioner: Provision and Delete of directory-backed    *)
(* volumes on NFS exports, in the two variants the repository holds:       *)
(*   "labels"    src/nfs-client/cmd/nfs-client-provisioner/provisioner.go  *)
(*               (one mount point per (server, path); directory named from *)
(*               tenant, stack, service and PV name)                       *)
(*   "namespace" src/unnamed/part_000                                      *)
(*               (one mount point per server; directory named from the     *)
(*               claim's namespace and the PV name)                        *)
(*                                                                         *)
(* A Go string is a sequence of symbols.  A symbol is one character ("/",  *)
(* "-", "%", ...) or an opaque run of letters and digits that holds none   *)
(* of the characters the code gives a meaning to ("persistentvolumes",     *)
(* "archived", "n1", "a").                                                 *)
(***************************************************************************)
EXTENDS Integers, Sequences, FiniteSets, TLC

VARIABLES
    variant,    \* which of the two programs runs: "labels" or "namespace"
    localDirs,  \* directories of the provisioner's own filesystem (component lists)
    remote,     \* directories and files on the NFS servers: <<server, component list>>
    mounts,     \* the kernel mount table, oldest first: [server, path, mp]
    pvs,        \* the PersistentVolume objects the controller holds
    last,       \* the last completed call: operation, input, result
    calls,      \* number of calls made so far
    procs,      \* the calls in flight (position and locals of each goroutine)
    probe       \* a call of pvName on its own: the arguments and the result

vars == <<variant, localDirs, remote, mounts, pvs, last, calls, procs, probe>>

----------------------------------------------------------------------------
(* Strings *)

Slash == "/"
Dash == "-"
Dot == "."

\* strings.Join of a sequence of strings with a separator string
RECURSIVE JoinWith(_, _)
JoinWith(ss, sep) ==
    IF ss = <<>> THEN <<>>
    ELSE IF Len(ss) = 1 THEN ss[1]
    ELSE ss[1] \o sep \o JoinWith(Tail(ss), sep)

\* strings.Split of s on the one-symbol separator c: always at least one field
RECURSIVE SplitOn(_, _)
SplitOn(s, c) ==
    IF \A i \in 1..Len(s) : s[i] # c THEN <<s>>
    ELSE LET k == CHOOSE i \in 1..Len(s) : s[i] = c /\ \A j \in 1..(i-1) : s[j] # c
         IN  <<SubSeq(s, 1, k-1)>> \o SplitOn(SubSeq(s, k+1, Len(s)), c)

\* the components of a path after path.Clean: empty and "." components are
\* dropped, ".." removes the component before it (and is dropped at the root)
RECURSIVE CleanComps(_, _)
CleanComps(raw, acc) ==
    IF raw = <<>> THEN acc
    ELSE LET c == Head(raw) IN
         IF c = <<>> \/ c = <<Dot>> THEN CleanComps(Tail(raw), acc)
         ELSE IF c = <<Dot, Dot>>
              THEN CleanComps(Tail(raw),
                              IF acc = <<>> THEN acc ELSE SubSeq(acc, 1, Len(acc)-1))
              ELSE CleanComps(Tail(raw), Append(acc, c))

\* the component list of a rooted path string
Comps(p) == CleanComps(SplitOn(p, Slash), <<>>)

\* the rooted path string of a component list
FromComps(cs) == IF cs = <<>> THEN <<Slash>> ELSE <<Slash>> \o JoinWith(cs, <<Slash>>)

\* path.Clean / filepath.Clean on the paths of this program (all rooted;
\* the empty string cleans to ".")
Clean(p) ==
    IF p = <<>> THEN <<Dot>>
    ELSE IF p[1] = Slash THEN FromComps(Comps(p))
    ELSE LET cs == CleanComps(SplitOn(p, Slash), <<>>)
         IN  IF cs = <<>> THEN <<Dot>> ELSE JoinWith(cs, <<Slash>>)

\* filepath.Join: the non-empty elements joined by "/", then cleaned
FilepathJoin(elems) ==
    LET ne == SelectSeq(elems, LAMBDA e : e # <<>>)
    IN  IF ne = <<>> THEN <<>> ELSE Clean(JoinWith(ne, <<Slash>>))

\* path.Dir: everything up to the last slash, cleaned
PathDir(p) ==
    IF \A i \in 1..Len(p) : p[i] # Slash THEN <<Dot>>
    ELSE LET k == CHOOSE i \in 1..Len(p) : p[i] = Slash /\ \A j \in (i+1)..Len(p) : p[j] # Slash
         IN  Clean(SubSeq(p, 1, k))

\* url.QueryEscape of one symbol: letters, digits, "-", "_", "." and "~" stay,
\* a space becomes "+", every other character becomes %XX
EscapeSym(c) ==
    CASE c = "/" -> <<"%", "2", "F">>
      [] c = "%" -> <<"%", "2", "5">>
      [] c = "+" -> <<"%", "2", "B">>
      [] c = ":" -> <<"%", "3", "A">>
      [] c = " " -> <<"+">>
      [] OTHER   -> <<c>>

RECURSIVE QueryEscape(_)
QueryEscape(s) == IF s = <<>> THEN <<>> ELSE EscapeSym(Head(s)) \o QueryEscape(Tail(s))

----------------------------------------------------------------------------
(* The pure functions of the two programs *)

mountPath == <<Slash, "persistentvolumes">>

\* provisioner.go: fmt.Sprintf("%s-%s-%s-%s", tenant, stack, service, name)
pvName_NoSeparator(tenant, stack, service, name) == tenant \o stack \o service \o name

pvName(tenant, stack, service, name) ==
    tenant \o <<Dash>> \o stack \o <<Dash>> \o service \o <<Dash>> \o name

\* part_000: fmt.Sprintf("%s-%s", ns, name)
pvNameNs(ns, name) == ns \o <<Dash>> \o name

\* provisioner.go: fmt.Sprintf("%s/%s/%s", mountPath, server, url.QueryEscape(path))
mountPoint(server, path) ==
    mountPath \o <<Slash>> \o server \o <<Slash>> \o QueryEscape(path)

\* part_000: filepath.Join(mountPath, server)
mountPointNs(server) == FilepathJoin(<<mountPath, server>>)

----------------------------------------------------------------------------
(* The host: local directories, NFS servers, the mount table.               *)
(* A world is a record [localDirs, remote, mounts]; the operations below    *)
(* are the system calls and commands the programs run, as functions from a  *)
(* world (and the outcome the environment picks) to a world and an error.   *)

nil == "nil"

\* the host of a path that no mount covers (no server has the empty name)
LocalHost == <<>>

World(l, r, m) == [localDirs |-> l, remote |-> r, mounts |-> m]

IsPrefix(a, b) == Len(a) <= Len(b) /\ SubSeq(b, 1, Len(a)) = a

\* the mount that covers local path cs: the deepest mount point on the way,
\* and of the mounts stacked on one mount point the newest; 0 if none
CoveringMount(w, cs) ==
    LET on == {i \in 1..Len(w.mounts) : IsPrefix(Comps(w.mounts[i].mp), cs)}
    IN  IF on = {} THEN 0
        ELSE CHOOSE i \in on : \A j \in on :
                \/ Len(Comps(w.mounts[j].mp)) < Len(Comps(w.mounts[i].mp))
                \/ (Len(Comps(w.mounts[j].mp)) = Len(Comps(w.mounts[i].mp)) /\ j <= i)

\* where local path cs really lives: on this host, or on an NFS server
Resolve(w, cs) ==
    LET i == CoveringMount(w, cs)
    IN  IF i = 0 THEN [host |-> LocalHost, node |-> cs]
        ELSE [host |-> w.mounts[i].server,
              node |-> Comps(w.mounts[i].path)
                       \o SubSeq(cs, Len(Comps(w.mounts[i].mp)) + 1, Len(cs))]

NodeExists(w, loc) ==
    IF loc.host = LocalHost THEN loc.node \in w.localDirs
    ELSE <<loc.host, loc.node>> \in w.remote

Exists(w, cs) == NodeExists(w, Resolve(w, cs))

AddNodes(w, locs) ==
    [w EXCEPT !.localDirs = @ \cup {l.node : l \in {x \in locs : x.host = LocalHost}},
              !.remote = @ \cup {<<l.host, l.node>> : l \in {x \in locs : x.host # LocalHost}}]

\* The operations below return the set of outcomes the host can produce: a
\* system call or a command may fail for reasons the program does not see.

\* os.MkdirAll(p): nil if p is a directory already; else the missing
\* directories are made from the top down, and a failure on the way leaves
\* the ones made before it
MkdirAll(w, p) ==
    LET cs == Comps(p)
        missing == {i \in 1..Len(cs) : ~Exists(w, SubSeq(cs, 1, i))}
        first == IF missing = {} THEN Len(cs) + 1
                 ELSE CHOOSE i \in missing : \A j \in missing : i <= j
    IN  {[w   |-> AddNodes(w, {Resolve(w, SubSeq(cs, 1, i)) : i \in first..upto}),
          err |-> IF upto = Len(cs) THEN nil ELSE "mkdir failed"] :
            upto \in (first - 1)..Len(cs)}

MountCmd_ReplacesTable(w, server, path, mp) ==
    {[w |-> w, err |-> "mount failed"]}
    \cup IF Exists(w, Comps(mp)) /\ <<server, Comps(path)>> \in w.remote
         THEN {[w   |-> [w EXCEPT !.mounts = <<[server |-> server, path |-> path,
                                                 mp |-> FromComps(Comps(mp))]>>],
                err |-> nil]}
         ELSE {}

\* exec.Command("mount", server:path, mp).Run(): needs the mount point
\* directory and the export, and may fail all the same.  The kernel lists
\* the mount under the canonical path of the mount point.
MountCmd(w, server, path, mp) ==
    {[w |-> w, err |-> "mount failed"]}
    \cup IF Exists(w, Comps(mp)) /\ <<server, Comps(path)>> \in w.remote
         THEN {[w   |-> [w EXCEPT !.mounts = Append(@, [server |-> server, path |-> path,
                                                         mp |-> FromComps(Comps(mp))])],
                err |-> nil]}
         ELSE {}

Moved_DirectoryOnly(dirs, o, n) == {IF x = o THEN n ELSE x : x \in dirs \ {y \in dirs : y # o /\ IsPrefix(o, y)}}

\* the directories after rename(2) of directory o to n on one filesystem
Moved(dirs, o, n) ==
    {IF IsPrefix(o, x) THEN n \o SubSeq(x, Len(o) + 1, Len(x)) ELSE x : x \in dirs}

\* rename(2) without the check of os.Rename: a directory new is replaced
RenameAt_ReplacesDestination(w, o, n, sameMount) ==
    IF ~NodeExists(w, o) THEN {[w |-> w, err |-> "no such file or directory"]}
    ELSE IF o = n THEN {[w |-> w, err |-> nil]}
    ELSE IF ~sameMount THEN {[w |-> w, err |-> "invalid cross-device link"]}
    ELSE {[w |-> IF o.host = LocalHost
                 THEN [w EXCEPT !.localDirs =
                         Moved({x \in @ : ~IsPrefix(n.node, x)}, o.node, n.node)]
                 ELSE [w EXCEPT !.remote =
                         {x \in @ : x[1] # o.host}
                         \cup {<<o.host, y>> :
                                 y \in Moved({x[2] : x \in {z \in @ : z[1] = o.host /\ ~IsPrefix(n.node, z[2])}},
                                             o.node, n.node)}],
           err |-> nil]}

RenameAt_MissingSourceIsSuccess(w, o, n, sameMount) ==
    IF ~NodeExists(w, o) THEN {[w |-> w, err |-> nil]}
    ELSE IF NodeExists(w, n) /\ o # n THEN {[w |-> w, err |-> "file exists"]}
    ELSE IF o = n THEN {[w |-> w, err |-> nil]}
    ELSE IF ~sameMount THEN {[w |-> w, err |-> "invalid cross-device link"]}
    ELSE {[w |-> IF o.host = LocalHost
                 THEN [w EXCEPT !.localDirs = Moved(@, o.node, n.node)]
                 ELSE [w EXCEPT !.remote =
                         {x \in @ : x[1] # o.host}
                         \cup {<<o.host, y>> : y \in Moved({x[2] : x \in {z \in @ : z[1] = o.host}},
                                                          o.node, n.node)}],
           err |-> nil]}

\* os.Rename(old, new) of Go on Unix: an existing directory new is refused
\* (the error on old first, if old cannot be stat'ed); then rename(2), which
\* moves the directory with all it holds in one step.  On a healthy export it
\* is refused only for the reasons the two paths give.
RenameAt(w, o, n, sameMount) ==
    IF NodeExists(w, n) /\ ~NodeExists(w, o) THEN {[w |-> w, err |-> "no such file or directory"]}
    ELSE IF NodeExists(w, n) /\ o # n THEN {[w |-> w, err |-> "file exists"]}
    ELSE IF ~NodeExists(w, o) THEN {[w |-> w, err |-> "no such file or directory"]}
    ELSE IF o = n THEN {[w |-> w, err |-> nil]}
    ELSE IF ~sameMount THEN {[w |-> w, err |-> "invalid cross-device link"]}
    ELSE {[w |-> IF o.host = LocalHost
                 THEN [w EXCEPT !.localDirs = Moved(@, o.node, n.node)]
                 ELSE [w EXCEPT !.remote =
                         {x \in @ : x[1] # o.host}
                         \cup {<<o.host, y>> : y \in Moved({x[2] : x \in {z \in @ : z[1] = o.host}},
                                                          o.node, n.node)}],
           err |-> nil]}

Rename(w, old, new) ==
    UNION {RenameAt(w, o, n, CoveringMount(w, Comps(old)) = CoveringMount(w, Comps(new))) :
             o \in {Resolve(w, Comps(old))}, n \in {Resolve(w, Comps(new))}}

----------------------------------------------------------------------------
(* The functions of the two programs.  Each returns the set of its possible *)
(* results in world w; a value that is used more than once is bound with    *)
(* x \in S, so that the steps read in the order the code makes them.        *)

inMap(key, m) == \E kv \in m : kv[1] = key

\* m[key] of a Go map: the empty string when the key is missing
MapGet(m, key) == IF inMap(key, m) THEN (CHOOSE kv \in m : kv[1] = key)[2] ELSE <<>>

isMounted_NeverFound(w, mp) == {[readable |-> TRUE, mounted |-> FALSE]}

\* linuxproc.ReadMounts may fail, and isMounted then answers false.  When the
\* table does not list mp the answer is false either way, and the two cases
\* are one outcome.
isMounted(w, mp) ==
    {[readable |-> TRUE, mounted |-> \E i \in 1..Len(w.mounts) : w.mounts[i].mp = mp]}
    \cup IF \E i \in 1..Len(w.mounts) : w.mounts[i].mp = mp
         THEN {[readable |-> FALSE, mounted |-> FALSE]}
         ELSE {}

EnsureMountResult(w, mp, err, t, ranMount) ==
    [w |-> w, mp |-> mp, err |-> err, readable |-> t.readable, found |-> t.mounted,
     ranMount |-> ranMount]

ensureMountAt_ErrorWhenUnreadable(w, server, path, mp) ==
    UNION {IF t.mounted THEN {EnsureMountResult(w, mp, nil, t, FALSE)}
           ELSE IF ~t.readable
           THEN {EnsureMountResult(w, mp, "cannot read mount table", t, FALSE)}
           ELSE UNION {IF d.err # nil THEN {EnsureMountResult(d.w, mp, d.err, t, FALSE)}
                       ELSE {EnsureMountResult(m.w, mp, m.err, t, TRUE) :
                               m \in MountCmd(d.w, server, path, mp)} :
                         d \in MkdirAll(w, mp)} :
             t \in isMounted(w, mp)}

\* the body of the two ensureMount functions, which differ in where mp comes from
ensureMountAt(w, server, path, mp) ==
    UNION {IF t.mounted THEN {EnsureMountResult(w, mp, nil, t, FALSE)}
           ELSE UNION {IF d.err # nil THEN {EnsureMountResult(d.w, mp, d.err, t, FALSE)}
                       ELSE {EnsureMountResult(m.w, mp, m.err, t, TRUE) :
                               m \in MountCmd(d.w, server, path, mp)} :
                         d \in MkdirAll(w, mp)} :
             t \in isMounted(w, mp)}

\* provisioner.go
ensureMount(w, server, path) == ensureMountAt(w, server, path, mountPoint(server, path))

\* part_000
ensureMountNs(w, server, path, mp) == ensureMountAt(w, server, path, mp)

----------------------------------------------------------------------------
(* Provision and Delete.  A Go map is a set of <<key, value>> pairs; the     *)
(* optional parts of the PersistentVolume (the claim reference) are sets of *)
(* at most one element.                                                     *)

ErrSelector == "claim Selector is not supported"
ErrParams == "nfsPath and nfsServer parameters required"
ErrMount == "unable to mount NFS volume"
ErrCreate == "unable to create directory to provision new pv"
ErrNilClaimRef == "panic: nil pointer dereference"

ArchivedPrefix == <<"archived", Dash>>

\* the record of a call that did not reach ensureMount
NoEnsureMount ==
    [called |-> FALSE, server |-> <<>>, path |-> <<>>, mp |-> <<>>, err |-> nil,
     readable |-> TRUE, found |-> FALSE, ranMount |-> FALSE]

EnsureMountRecord(server, path, e) ==
    [called |-> TRUE, server |-> server, path |-> path, mp |-> e.mp, err |-> e.err,
     readable |-> e.readable, found |-> e.found, ranMount |-> e.ranMount]

Failed(w, err, emr) == [w |-> w, err |-> err, pv |-> {}, em |-> emr, dir |-> <<>>]

NewPV_PathOfExport(options, labels, server, nfsPath) ==
    [Name          |-> options.PVName,
     Labels        |-> labels,
     ReclaimPolicy |-> options.PersistentVolumeReclaimPolicy,
     AccessModes   |-> options.AccessModes,
     Capacity      |-> options.Capacity,
     Server        |-> server,
     Path          |-> MapGet(options.Parameters, "nfsPath"),
     ReadOnly      |-> FALSE,
     ClaimRef      |-> {}]

\* the PersistentVolume the two Provision functions build
NewPV(options, labels, server, nfsPath) ==
    [Name          |-> options.PVName,
     Labels        |-> labels,
     ReclaimPolicy |-> options.PersistentVolumeReclaimPolicy,
     AccessModes   |-> options.AccessModes,
     Capacity      |-> options.Capacity,
     Server        |-> server,
     Path          |-> nfsPath,
     ReadOnly      |-> FALSE,
     ClaimRef      |-> {}]

WiseLabels(options) ==
    {<<"io.wise2c.tenant", options.Tenant>>,
     <<"io.wise2c.stack", options.Stack>>,
     <<"io.wise2c.service", options.Service>>}

\* provisioner.go, nfsProvisioner.Provision from the call of ensureMount on;
\* createAnyway is FALSE in the code, which returns when ensureMount fails
ProvisionSteps(w, options, createAnyway) ==
    LET server == MapGet(options.Parameters, "nfsServer")
        path   == MapGet(options.Parameters, "nfsPath")
        name   == pvName(options.Tenant, options.Stack, options.Service, options.PVName)
    IN  UNION {IF e.err # nil /\ ~createAnyway
               THEN {Failed(e.w, ErrMount, EnsureMountRecord(server, path, e))}
               ELSE {IF e.err # nil
                     THEN Failed(d.w, ErrMount, EnsureMountRecord(server, path, e))
                     ELSE IF d.err # nil
                     THEN Failed(d.w, ErrCreate, EnsureMountRecord(server, path, e))
                     ELSE [w   |-> d.w,
                           err |-> nil,
                           pv  |-> {NewPV(options, WiseLabels(options), server,
                                          FilepathJoin(<<path, name>>))},
                           em  |-> EnsureMountRecord(server, path, e),
                           dir |-> FilepathJoin(<<e.mp, name>>)] :
                       d \in MkdirAll(e.w, FilepathJoin(<<e.mp, name>>))} :
                 e \in ensureMount(w, server, path)}

Provision_SelectorCheckedLast(w, options) ==
    IF ~(inMap("nfsPath", options.Parameters) /\ inMap("nfsServer", options.Parameters))
    THEN {Failed(w, ErrParams, NoEnsureMount)}
    ELSE IF options.Selector THEN {Failed(w, ErrSelector, NoEnsureMount)}
    ELSE ProvisionSteps(w, options, FALSE)

Provision_EitherParameter(w, options) ==
    IF options.Selector THEN {Failed(w, ErrSelector, NoEnsureMount)}
    ELSE IF ~(inMap("nfsPath", options.Parameters) \/ inMap("nfsServer", options.Parameters))
    THEN {Failed(w, ErrParams, NoEnsureMount)}
    ELSE ProvisionSteps(w, options, FALSE)

Provision_NoReturnOnMountError(w, options) ==
    IF options.Selector THEN {Failed(w, ErrSelector, NoEnsureMount)}
    ELSE IF ~(inMap("nfsPath", options.Parameters) /\ inMap("nfsServer", options.Parameters))
    THEN {Failed(w, ErrParams, NoEnsureMount)}
    ELSE ProvisionSteps(w, options, TRUE)

\* provisioner.go, nfsProvisioner.Provision
Provision(w, options) ==
    IF options.Selector THEN {Failed(w, ErrSelector, NoEnsureMount)}
    ELSE IF ~(inMap("nfsPath", options.Parameters) /\ inMap("nfsServer", options.Parameters))
    THEN {Failed(w, ErrParams, NoEnsureMount)}
    ELSE ProvisionSteps(w, options, FALSE)

\* part_000, nfsProvisioner.Provision
ProvisionNs(w, options) ==
    IF options.Selector THEN {Failed(w, ErrSelector, NoEnsureMount)}
    ELSE IF ~(inMap("nfsPath", options.Parameters) /\ inMap("nfsServer", options.Parameters))
    THEN {Failed(w, ErrParams, NoEnsureMount)}
    ELSE
    LET server == MapGet(options.Parameters, "nfsServer")
        path   == MapGet(options.Parameters, "nfsPath")
        mp     == FilepathJoin(<<mountPath, server>>)
        name   == pvNameNs(options.Namespace, options.PVName)
    IN  UNION {IF e.err # nil THEN {Failed(e.w, ErrMount, EnsureMountRecord(server, path, e))}
               ELSE {IF d.err # nil
                     THEN Failed(d.w, ErrCreate, EnsureMountRecord(server, path, e))
                     ELSE [w   |-> d.w,
                           err |-> nil,
                           pv  |-> {NewPV(options, {}, server, FilepathJoin(<<path, name>>))},
                           em  |-> EnsureMountRecord(server, path, e),
                           dir |-> FilepathJoin(<<mp, name>>)] :
                       d \in MkdirAll(e.w, FilepathJoin(<<mp, name>>))} :
                 e \in ensureMountNs(w, server, path, mp)}

DeleteResult(w, err, emr, old, new) ==
    [w |-> w, err |-> err, em |-> emr, old |-> old, new |-> new]

\* provisioner.go, nfsProvisioner.Delete; renameAnyway is FALSE in the code,
\* which returns when ensureMount fails
DeleteSteps(w, volume, renameAnyway) ==
    LET server == volume.Server
        path   == PathDir(volume.Path)
        name   == pvName(MapGet(volume.Labels, "io.wise2c.tenant"),
                         MapGet(volume.Labels, "io.wise2c.stack"),
                         MapGet(volume.Labels, "io.wise2c.service"),
                         volume.Name)
    IN  UNION {IF e.err # nil /\ ~renameAnyway
               THEN {DeleteResult(e.w, e.err, EnsureMountRecord(server, path, e), <<>>, <<>>)}
               ELSE {DeleteResult(r.w, IF e.err # nil THEN e.err ELSE r.err,
                                  EnsureMountRecord(server, path, e),
                                  FilepathJoin(<<e.mp, name>>),
                                  FilepathJoin(<<e.mp, ArchivedPrefix \o name>>)) :
                       r \in Rename(e.w, FilepathJoin(<<e.mp, name>>),
                                    FilepathJoin(<<e.mp, ArchivedPrefix \o name>>))} :
                 e \in ensureMount(w, server, path)}

Delete_NoReturnOnMountError(w, volume) == DeleteSteps(w, volume, TRUE)

Delete(w, volume) == DeleteSteps(w, volume, FALSE)

\* part_000, nfsProvisioner.Delete
DeleteNs(w, volume) ==
    LET server == volume.Server
        path   == PathDir(volume.Path)
        oldPath(ref)     == FilepathJoin(<<mountPath, server, pvNameNs(ref.Namespace, volume.Name)>>)
        archivePath(ref) == FilepathJoin(<<mountPath, server,
                                           ArchivedPrefix \o pvNameNs(ref.Namespace, volume.Name)>>)
    IN  UNION {IF e.err # nil
               THEN {DeleteResult(e.w, e.err, EnsureMountRecord(server, path, e), <<>>, <<>>)}
               ELSE IF volume.ClaimRef = {}
               THEN {DeleteResult(e.w, ErrNilClaimRef, EnsureMountRecord(server, path, e),
                                  <<>>, <<>>)}
               ELSE UNION {{DeleteResult(r.w, r.err, EnsureMountRecord(server, path, e),
                                         oldPath(ref), archivePath(ref)) :
                              r \in Rename(e.w, oldPath(ref), archivePath(ref))} :
                             ref \in volume.ClaimRef} :
                 e \in ensureMountNs(w, server, path, FilepathJoin(<<mountPath, server>>))}

-----
(* The inputs *)

MaxCalls == 3     \* calls of Provision and Delete in one behaviour

Servers == {<<"n1">>, <<"n2">>}
Paths == {<<Slash, "e">>, <<Slash, "f">>}

\* the exports that storage classes name
Targets == {<<<<"n1">>, <<Slash, "e">>>>, <<<<"n1">>, <<Slash, "f">>>>, <<<<"n2">>, <<Slash, "e">>>>}

\* the claims: the fields the directory name is made from, and what is asked for
Claims ==
    {[Tenant |-> <<"a">>, Stack |-> <<"b">>, Service |-> <<"c">>,
      PVName |-> <<"pvc", Dash, "1">>, Namespace |-> <<"a">>,
      PersistentVolumeReclaimPolicy |-> "Delete", AccessModes |-> {"ReadWriteOnce"}, Capacity |-> 1],
     [Tenant |-> <<"t">>, Stack |-> <<"b">>, Service |-> <<"c">>,
      PVName |-> <<"pvc", Dash, "2">>, Namespace |-> <<"t">>,
      PersistentVolumeReclaimPolicy |-> "Retain", AccessModes |-> {"ReadWriteMany"}, Capacity |-> 2]}

\* the parameters of a storage class: complete, or with a key missing
CompleteMaps == {{<<"nfsServer", t[1]>>, <<"nfsPath", t[2]>>} : t \in Targets}
IncompleteMaps == {{}, {<<"nfsServer", <<"n1">>>>}, {<<"nfsPath", <<Slash, "e">>>>}}

Options(sel, ps, c) ==
    [Selector   |-> sel,
     Parameters |-> ps,
     Tenant     |-> c.Tenant,
     Stack      |-> c.Stack,
     Service    |-> c.Service,
     PVName     |-> c.PVName,
     Namespace  |-> c.Namespace,
     PersistentVolumeReclaimPolicy |-> c.PersistentVolumeReclaimPolicy,
     AccessModes |-> c.AccessModes,
     Capacity    |-> c.Capacity]

\* controller.VolumeOptions, with the fields of the claim the code reads: the
\* first claim on every export, the second claim on the first export, and the
\* first claim with a selector or with incomplete parameters
FirstClaim == CHOOSE c \in Claims : c.Capacity = 1
FirstMap == {<<"nfsServer", <<"n1">>>>, <<"nfsPath", <<Slash, "e">>>>}
VolumeOptions ==
    {Options(FALSE, ps, FirstClaim) : ps \in CompleteMaps \cup IncompleteMaps}
    \cup {Options(FALSE, FirstMap, c) : c \in Claims}
    \cup {Options(TRUE, ps, FirstClaim) : ps \in {FirstMap, {<<"nfsServer", <<"n1">>>>}}}

Variants == {"labels", "namespace"}

Procs == {1, 2}

----------------------------------------------------------------------------
(* The state machine in which calls run one at a time *)

Now == World(localDirs, remote, mounts)

NoCall ==
    [op |-> "none", options |-> {}, volume |-> {}, err |-> nil, pv |-> {},
     em |-> NoEnsureMount, dir |-> <<>>, old |-> <<>>, new |-> <<>>, retry |-> FALSE]

\* a goroutine of the controller that is in no call
IdleProc ==
    [pc |-> "idle", op |-> "none", options |-> {}, volume |-> {}, server |-> <<>>,
     path |-> <<>>, mp |-> <<>>, readable |-> TRUE, ranMount |-> FALSE, err |-> nil]

NoProbe == [applied |-> FALSE, fields |-> <<>>, name |-> <<>>]

\* the host when the provisioner starts: /persistentvolumes is there, nothing
\* is mounted, the servers export their paths
InitHost ==
    /\ localDirs = {<<>>, Comps(mountPath)}
    /\ remote = {<<s, <<>>>> : s \in Servers} \cup {<<s, Comps(p)>> : s \in Servers, p \in Paths}
    /\ mounts = <<>>
    /\ pvs = {}
    /\ last = NoCall
    /\ calls = 0
    /\ procs = [p \in Procs |-> IdleProc]

Init ==
    /\ variant \in Variants
    /\ InitHost
    /\ probe = NoProbe

SetWorld(w) ==
    /\ localDirs' = w.localDirs
    /\ remote' = w.remote
    /\ mounts' = w.mounts

\* the controller stores the volume that Provision returned, with a reference
\* to the claim it was provisioned for
Persisted(pv, options) == [pv EXCEPT !.ClaimRef = {[Namespace |-> options.Namespace]}]

\* one call of Provision by the controller, with the request options
ProvisionWith(options) ==
    \E r \in IF variant = "labels" THEN Provision(Now, options)
             ELSE ProvisionNs(Now, options) :
        /\ calls' = calls + 1
        /\ SetWorld(r.w)
        /\ pvs' = pvs \cup {Persisted(pv, options) : pv \in r.pv}
        /\ last' = [op |-> "Provision", options |-> {options}, volume |-> {},
                    err |-> r.err, pv |-> r.pv, em |-> r.em, dir |-> r.dir,
                    old |-> <<>>, new |-> <<>>, retry |-> FALSE]
        /\ UNCHANGED <<variant, procs, probe>>

ProvisionCall ==
    /\ calls < MaxCalls
    /\ \E options \in VolumeOptions : ProvisionWith(options)

\* one call of Delete by the controller, with a volume it holds; the
\* controller makes the call again when it has failed (retry)
DeleteOf(volume) ==
    \E r \in IF variant = "labels" THEN Delete(Now, volume)
             ELSE DeleteNs(Now, volume) :
        /\ calls' = calls + 1
        /\ SetWorld(r.w)
        /\ last' = [op |-> "Delete", options |-> {}, volume |-> {volume},
                    err |-> r.err, pv |-> {}, em |-> r.em, dir |-> <<>>,
                    old |-> r.old, new |-> r.new,
                    retry |-> last.op = "Delete" /\ last.err # nil
                              /\ last.volume = {volume}]
        /\ UNCHANGED <<variant, pvs, procs, probe>>

DeleteCall ==
    /\ calls < MaxCalls
    /\ \E volume \in pvs : DeleteOf(volume)

\* a pod that uses a volume writes into it, through its own mount of the
\* export path the PersistentVolume names
PodWrite ==
    \E volume \in pvs :
        /\ <<volume.Server, Comps(volume.Path)>> \in remote
        /\ remote' = remote \cup {<<volume.Server, Append(Comps(volume.Path), <<"data">>)>>}
        /\ UNCHANGED <<variant, localDirs, mounts, pvs, last, calls, procs, probe>>

Next == ProvisionCall \/ DeleteCall \/ PodWrite

Spec == Init /\ [][Next]_vars

----------------------------------------------------------------------------
(* The life of one volume: calls one at a time, all for one request, so     *)
(* that the volume can be provisioned again after it was deleted.           *)

MaxArchiveCalls == 4     \* calls of Provision and Delete in one behaviour

ArchiveOptions == Options(FALSE, FirstMap, FirstClaim)

ArchiveProvision ==
    /\ calls < MaxArchiveCalls
    /\ ProvisionWith(ArchiveOptions)

ArchiveDelete ==
    /\ calls < MaxArchiveCalls
    /\ \E volume \in pvs : DeleteOf(volume)

ArchiveNext == ArchiveProvision \/ ArchiveDelete \/ PodWrite

ArchiveSpec == Init /\ [][ArchiveNext]_vars

----------------------------------------------------------------------------
(* Provision and Delete back to back: Delete is given the PersistentVolume  *)
(* as Provision returned it, and the storage class may write the export     *)
(* path with a slash at its end.                                            *)

MaxRoundTripCalls == 3     \* calls of Provision and Delete in one behaviour

RoundTripOptions ==
    {Options(FALSE, {<<"nfsServer", <<"n1">>>>, <<"nfsPath", path>>}, FirstClaim) :
        path \in {<<Slash, "e">>, <<Slash, "e", Slash>>}}

\* one call of Provision, whose result is kept as it is
RoundTripProvision ==
    /\ calls < MaxRoundTripCalls
    /\ \E options \in RoundTripOptions :
         \E r \in IF variant = "labels" THEN Provision(Now, options)
                  ELSE ProvisionNs(Now, options) :
            /\ calls' = calls + 1
            /\ SetWorld(r.w)
            /\ pvs' = pvs \cup r.pv
            /\ last' = [op |-> "Provision", options |-> {options}, volume |-> {},
                        err |-> r.err, pv |-> r.pv, em |-> r.em, dir |-> r.dir,
                        old |-> <<>>, new |-> <<>>, retry |-> FALSE]
            /\ UNCHANGED <<variant, procs, probe>>

RoundTripDelete ==
    /\ calls < MaxRoundTripCalls
    /\ \E volume \in pvs : DeleteOf(volume)

RoundTripNext == RoundTripProvision \/ RoundTripDelete

RoundTripSpec == Init /\ [][RoundTripNext]_vars

----------------------------------------------------------------------------
(* pvName on its own: the function applied to four strings *)

MaxFieldLen == 2     \* length of a field of the directory name

\* the characters of a field: a letter and the separator
Alphabet == {"a", Dash}

Strings == UNION {[1..k -> Alphabet] : k \in 0..MaxFieldLen}

FieldTuples == Strings \X Strings \X Strings \X Strings

NameInit ==
    /\ variant = "labels"
    /\ InitHost
    /\ probe \in {[applied |-> FALSE, fields |-> t, name |-> <<>>] : t \in FieldTuples}

ApplyPvName ==
    /\ ~probe.applied
    /\ probe' = [probe EXCEPT !.applied = TRUE,
                              !.name = pvName(probe.fields[1], probe.fields[2],
                                              probe.fields[3], probe.fields[4])]
    /\ UNCHANGED <<variant, localDirs, remote, mounts, pvs, last, calls, procs>>

NameNext == ApplyPvName

NameSpec == NameInit /\ [][NameNext]_vars

----------------------------------------------------------------------------
(* The state machine in which calls run concurrently: the controller runs   *)
(* each Provision and Delete in a goroutine of its own, and a call is the   *)
(* sequence of its system calls and commands, each of them one step.  The   *)
(* controller does not run one request twice at a time.                     *)

MaxStarts == 2     \* calls started in one behaviour

\* a claim with a "-" inside its fields: Provision joins the fields as they
\* come, and the joined name is the one of the first claim
DashedClaim ==
    [Tenant |-> <<"a", Dash, "b">>, Stack |-> <<"c">>, Service |-> <<"pvc">>,
     PVName |-> <<"1">>, Namespace |-> <<"a", Dash, "pvc">>,
     PersistentVolumeReclaimPolicy |-> "Delete", AccessModes |-> {"ReadWriteOnce"}, Capacity |-> 3]

\* the requests of the concurrent calls
ConcOptions == VolumeOptions \cup {Options(FALSE, FirstMap, DashedClaim)}

\* a goroutine after its call has returned err
Returned(err) == [IdleProc EXCEPT !.err = err]

InCall(op, options, volume, server, path) ==
    [pc |-> "isMounted", op |-> op, options |-> options, volume |-> volume,
     server |-> server, path |-> path,
     mp |-> IF variant = "labels" THEN mountPoint(server, path) ELSE mountPointNs(server),
     readable |-> TRUE, ranMount |-> FALSE, err |-> nil]

\* the error Provision and Delete make of an error of ensureMount
MountError(pr, err) == IF pr.op = "Provision" THEN ErrMount ELSE err

\* Provision up to its call of ensureMount
StartProvision(p) ==
    /\ calls < MaxStarts
    /\ procs[p].pc = "idle"
    /\ \E options \in ConcOptions :
         /\ \A q \in Procs : procs[q].options # {options}
         /\ calls' = calls + 1
         /\ procs' = [procs EXCEPT ![p] =
              IF options.Selector THEN Returned(ErrSelector)
              ELSE IF ~(inMap("nfsPath", options.Parameters)
                        /\ inMap("nfsServer", options.Parameters))
              THEN Returned(ErrParams)
              ELSE InCall("Provision", {options}, {},
                          MapGet(options.Parameters, "nfsServer"),
                          MapGet(options.Parameters, "nfsPath"))]
    /\ UNCHANGED <<variant, localDirs, remote, mounts, pvs, last, probe>>

\* Delete up to its call of ensureMount
StartDelete(p) ==
    /\ calls < MaxStarts
    /\ procs[p].pc = "idle"
    /\ \E volume \in pvs :
         /\ \A q \in Procs : procs[q].volume # {volume}
         /\ calls' = calls + 1
         /\ procs' = [procs EXCEPT ![p] =
              InCall("Delete", {}, {volume}, volume.Server, PathDir(volume.Path))]
    /\ UNCHANGED <<variant, localDirs, remote, mounts, pvs, last, probe>>

\* ensureMount: isMounted(mp), and the return when it answers true
IsMountedStep(p) ==
    /\ procs[p].pc = "isMounted"
    /\ \E t \in isMounted(Now, procs[p].mp) :
         procs' = [procs EXCEPT ![p].pc = IF t.mounted THEN "work" ELSE "mkdirMp",
                                ![p].readable = t.readable]
    /\ UNCHANGED <<variant, localDirs, remote, mounts, pvs, last, calls, probe>>

\* ensureMount: os.MkdirAll(mp, 0777)
MkdirMountPoint(p) ==
    /\ procs[p].pc = "mkdirMp"
    /\ \E d \in MkdirAll(Now, procs[p].mp) :
         /\ SetWorld(d.w)
         /\ procs' = [procs EXCEPT ![p] =
              IF d.err # nil THEN Returned(MountError(procs[p], d.err))
              ELSE [procs[p] EXCEPT !.pc = "mount"]]
    /\ UNCHANGED <<variant, pvs, last, calls, probe>>

RunMount_ProceedsOnError(p) ==
    /\ procs[p].pc = "mount"
    /\ \E m \in MountCmd(Now, procs[p].server, procs[p].path, procs[p].mp) :
         /\ SetWorld(m.w)
         /\ procs' = [procs EXCEPT ![p] =
              [procs[p] EXCEPT !.pc = "work", !.ranMount = TRUE]]
    /\ UNCHANGED <<variant, pvs, last, calls, probe>>

\* ensureMount: the mount command
RunMount(p) ==
    /\ procs[p].pc = "mount"
    /\ \E m \in MountCmd(Now, procs[p].server, procs[p].path, procs[p].mp) :
         /\ SetWorld(m.w)
         /\ procs' = [procs EXCEPT ![p] =
              IF m.err # nil THEN Returned(MountError(procs[p], m.err))
              ELSE [procs[p] EXCEPT !.pc = "work", !.ranMount = TRUE]]
    /\ UNCHANGED <<variant, pvs, last, calls, probe>>

\* Provision after ensureMount: os.MkdirAll of the volume directory, and the
\* PersistentVolume returned to the controller
MakeVolumeDir(p) ==
    /\ procs[p].pc = "work" /\ procs[p].op = "Provision"
    /\ \E options \in procs[p].options :
         \E d \in MkdirAll(Now, FilepathJoin(<<procs[p].mp,
                     IF variant = "labels"
                     THEN pvName(options.Tenant, options.Stack, options.Service, options.PVName)
                     ELSE pvNameNs(options.Namespace, options.PVName)>>)) :
            /\ SetWorld(d.w)
            /\ procs' = [procs EXCEPT ![p] = Returned(IF d.err # nil THEN ErrCreate ELSE nil)]
            /\ pvs' = IF d.err # nil THEN pvs
                      ELSE pvs \cup {Persisted(
                             NewPV(options,
                                   IF variant = "labels" THEN WiseLabels(options) ELSE {},
                                   procs[p].server,
                                   FilepathJoin(<<procs[p].path,
                                       IF variant = "labels"
                                       THEN pvName(options.Tenant, options.Stack,
                                                   options.Service, options.PVName)
                                       ELSE pvNameNs(options.Namespace, options.PVName)>>)),
                             options)}
    /\ UNCHANGED <<variant, last, calls, probe>>

\* the names Delete renames from and to, under mount point mp
DeletePaths(volume, mp) ==
    IF variant = "labels"
    THEN {[old |-> FilepathJoin(<<mp, name>>),
           new |-> FilepathJoin(<<mp, ArchivedPrefix \o name>>)] :
            name \in {pvName(MapGet(volume.Labels, "io.wise2c.tenant"),
                             MapGet(volume.Labels, "io.wise2c.stack"),
                             MapGet(volume.Labels, "io.wise2c.service"),
                             volume.Name)}}
    ELSE {[old |-> FilepathJoin(<<mp, pvNameNs(ref.Namespace, volume.Name)>>),
           new |-> FilepathJoin(<<mp, ArchivedPrefix \o pvNameNs(ref.Namespace, volume.Name)>>)] :
            ref \in volume.ClaimRef}

\* Delete after ensureMount: os.Rename to the archived name
RenameVolumeDir(p) ==
    /\ procs[p].pc = "work" /\ procs[p].op = "Delete"
    /\ \E volume \in procs[p].volume :
         IF DeletePaths(volume, procs[p].mp) = {}
         THEN /\ procs' = [procs EXCEPT ![p] = Returned(ErrNilClaimRef)]
              /\ UNCHANGED <<localDirs, remote, mounts>>
         ELSE \E n \in DeletePaths(volume, procs[p].mp) :
                \E r \in Rename(Now, n.old, n.new) :
                   /\ SetWorld(r.w)
                   /\ procs' = [procs EXCEPT ![p] = Returned(r.err)]
    /\ UNCHANGED <<variant, pvs, last, calls, probe>>

ConcNext ==
    \E p \in Procs :
        \/ StartProvision(p)
        \/ StartDelete(p)
        \/ IsMountedStep(p)
        \/ MkdirMountPoint(p)
        \/ RunMount(p)
        \/ MakeVolumeDir(p)
        \/ RenameVolumeDir(p)

ConcSpec == Init /\ [][ConcNext]_vars

----------------------------------------------------------------------------
(* Properties *)

NowNext == World(localDirs', remote', mounts')

\* a step that is one call of Provision or Delete
IsCall == calls' = calls + 1

LastOptions == CHOOSE o \in last.options : TRUE
LastVolume == CHOOSE v \in last.volume : TRUE
LastPV == CHOOSE pv \in last.pv : TRUE

Complete(ps) == (\E kv \in ps : kv[1] = "nfsServer") /\ (\E kv \in ps : kv[1] = "nfsPath")

\* C1: in provisioner.go, a Provision that returns no error was given a
\* request without selector and with both parameters, and returns exactly one
\* volume: its NFS server is the request's, its NFS path is
\* remotePath/tenant-stack-service-PVName, its name is the PVName, its
\* capacity, access modes and reclaim policy are the request's; and the
\* directory tenant-stack-service-PVName exists under the mount point
\* /persistentvolumes/<server>/<escaped remotePath>.
C1_ProvisionDescriptor ==
    (variant = "labels" /\ last.op = "Provision" /\ last.err = nil) =>
        LET o      == LastOptions
            server == MapGet(o.Parameters, "nfsServer")
            path   == MapGet(o.Parameters, "nfsPath")
            name   == JoinWith(<<o.Tenant, o.Stack, o.Service, o.PVName>>, <<Dash>>)
        IN  /\ ~o.Selector /\ Complete(o.Parameters)
            /\ Cardinality(last.pv) = 1
            /\ LastPV.Server = server
            /\ LastPV.Path = path \o <<Slash>> \o name
            /\ LastPV.Name = o.PVName
            /\ LastPV.Capacity = o.Capacity
            /\ LastPV.AccessModes = o.AccessModes
            /\ LastPV.ReclaimPolicy = o.PersistentVolumeReclaimPolicy
            /\ last.dir = mountPoint(server, path) \o <<Slash>> \o name
            /\ Exists(Now, Comps(last.dir))
            /\ last.em.err = nil

\* C1 witness: a Provision of provisioner.go has succeeded on an export that
\* this very call mounted
C1_Witness ==
    /\ variant = "labels" /\ last.op = "Provision" /\ last.err = nil
    /\ last.em.ranMount
    /\ Exists(Now, Comps(last.dir))

\* the name of the directory that backs a volume the controller holds
VolDirName(v) ==
    IF variant = "labels"
    THEN JoinWith(<<MapGet(v.Labels, "io.wise2c.tenant"), MapGet(v.Labels, "io.wise2c.stack"),
                    MapGet(v.Labels, "io.wise2c.service"), v.Name>>, <<Dash>>)
    ELSE JoinWith(<<(CHOOSE c \in v.ClaimRef : TRUE).Namespace, v.Name>>, <<Dash>>)

ArchivedName(name) == <<"archived", Dash>> \o name

\* the nodes of `nodes` at or below directory loc
Under(nodes, loc) == {x \in nodes : x[1] = loc.host /\ IsPrefix(loc.node, x[2])}

\* C2: when Delete is called with a volume whose directory M/name exists while
\* M/archived-name does not (M being the mount point the call resolves), and
\* its ensureMount succeeds, Delete returns no error; afterwards
\* M/archived-name exists, M/name does not, everything that was in M/name is
\* in M/archived-name, and nothing else on the servers has changed.
C2_DeleteArchives ==
    [][(IsCall /\ last'.op = "Delete" /\ last'.em.err = nil) =>
        \A v \in last'.volume :
        \A src \in {Resolve(NowNext, Append(Comps(last'.em.mp), VolDirName(v)))} :
        \A dst \in {Resolve(NowNext, Append(Comps(last'.em.mp), ArchivedName(VolDirName(v))))} :
            (<<src.host, src.node>> \in remote /\ <<dst.host, dst.node>> \notin remote) =>
                /\ last'.err = nil
                /\ <<dst.host, dst.node>> \in remote'
                /\ <<src.host, src.node>> \notin remote'
                /\ \A held \in {Under(remote, src)} :
                     remote' = (remote \ held)
                               \cup {<<x[1], dst.node \o SubSeq(x[2], Len(src.node) + 1, Len(x[2]))>> :
                                       x \in held}
                /\ localDirs \subseteq localDirs']_vars

\* C2 witness: a Delete has archived a directory that a pod had written into
C2_Witness ==
    /\ last.op = "Delete" /\ last.err = nil
    /\ LET dst == Resolve(Now, Comps(last.new))
       IN  /\ <<dst.host, dst.node>> \in remote
           /\ <<dst.host, Append(dst.node, <<"data">>)>> \in remote
    /\ ~Exists(Now, Comps(last.old))

SameTarget(e1, e2) == e1.called /\ e2.called /\ e1.server = e2.server /\ e1.path = e2.path

\* C3 as claimed: of two ensureMount calls in sequence for the same (server,
\* remotePath), both return the same mount point and at most one runs the
\* mount command.
C3_AtMostOneMount ==
    [][(IsCall /\ SameTarget(last.em, last'.em)) =>
          /\ last'.em.mp = last.em.mp
          /\ ~(last.em.ranMount /\ last'.em.ranMount)]_vars

\* C3 amended: of two ensureMount calls in sequence for the same (server,
\* remotePath), both return the same mount point; if the first returned no
\* error and the second can read the mount table, the second finds the mount
\* point there and returns without making a directory or running mount.
C3_SecondCallFindsMount ==
    [][(IsCall /\ SameTarget(last.em, last'.em)) =>
          /\ last'.em.mp = last.em.mp
          /\ (last.em.err = nil /\ last'.em.readable) =>
                /\ last'.em.found /\ ~last'.em.ranMount /\ last'.em.err = nil
                /\ mounts' = mounts /\ localDirs' = localDirs]_vars

\* C3 witness: the second call in a row finds the mount that the first made
C3_Witness ==
    /\ calls = 2 /\ variant = "labels"
    /\ last.em.called /\ last.em.found /\ ~last.em.ranMount
    /\ Len(mounts) = 1 /\ mounts[1].mp = last.em.mp

\* C4: a Provision whose request carries a selector fails with the
\* unsupported-selector error whatever its parameters are, returns no volume,
\* does not call ensureMount and changes no directory and no mount.
C4_SelectorRejected ==
    [][(IsCall /\ last'.op = "Provision" /\ (CHOOSE o \in last'.options : TRUE).Selector) =>
          /\ last'.err = ErrSelector
          /\ last'.pv = {}
          /\ ~last'.em.called
          /\ UNCHANGED <<localDirs, remote, mounts, pvs>>]_vars

\* C4 witness: a request with a selector and without nfsPath was rejected for
\* its selector
C4_Witness ==
    /\ last.op = "Provision" /\ LastOptions.Selector
    /\ ~Complete(LastOptions.Parameters) /\ LastOptions.Parameters # {}
    /\ last.err = ErrSelector

\* C5: a Provision whose request carries no selector and lacks nfsServer or
\* nfsPath or both fails with the missing-parameter error, returns no volume,
\* does not call ensureMount and changes no directory and no mount.
C5_ParametersRequired ==
    [][(IsCall /\ last'.op = "Provision"
        /\ ~(CHOOSE o \in last'.options : TRUE).Selector
        /\ ~Complete((CHOOSE o \in last'.options : TRUE).Parameters)) =>
          /\ last'.err = ErrParams
          /\ last'.pv = {}
          /\ ~last'.em.called
          /\ UNCHANGED <<localDirs, remote, mounts, pvs>>]_vars

\* C5 witness: a request with nfsServer and without nfsPath was rejected
C5_Witness ==
    /\ last.op = "Provision" /\ ~LastOptions.Selector
    /\ (\E kv \in LastOptions.Parameters : kv[1] = "nfsServer")
    /\ ~(\E kv \in LastOptions.Parameters : kv[1] = "nfsPath")
    /\ last.err = ErrParams

\* C7: after a Provision that returns no error, in either variant, the
\* directory the call made lies under a mount of the export (server,
\* remotePath) of the request, and it is the directory that the NFS path of
\* the returned volume names on that server.
C7_VolumeUnderItsExport ==
    (last.op = "Provision" /\ last.err = nil) =>
        LET i == CoveringMount(Now, Comps(last.dir))
        IN  /\ i # 0
            /\ mounts[i].server = last.em.server
            /\ mounts[i].path = last.em.path
            /\ Resolve(Now, Comps(last.dir))
                 = [host |-> LastPV.Server, node |-> Comps(LastPV.Path)]

\* a step that is a call of Delete which returned an error
DeleteFailed == IsCall /\ last'.op = "Delete" /\ last'.err # nil

\* C8: a Delete that returns an error leaves every directory on the servers
\* as it was (so M/name, what it holds, and archived-name are untouched) and
\* the volume with the controller; and a Delete of the same volume made right
\* after a failed one succeeds and archives the directory, if its ensureMount
\* succeeds, M/name exists and M/archived-name does not.
C8_FailedDeleteRetry ==
    [][/\ DeleteFailed => (remote' = remote /\ pvs' = pvs /\ localDirs \subseteq localDirs')
       /\ (IsCall /\ last.op = "Delete" /\ last.err # nil
           /\ last'.op = "Delete" /\ last'.volume = last.volume /\ last'.em.err = nil) =>
             LET v    == CHOOSE x \in last'.volume : TRUE
                 M    == Comps(last'.em.mp)
                 name == VolDirName(v)
                 src  == Resolve(NowNext, Append(M, name))
                 dst  == Resolve(NowNext, Append(M, ArchivedName(name)))
             IN  (<<src.host, src.node>> \in remote /\ <<dst.host, dst.node>> \notin remote) =>
                     /\ last'.err = nil
                     /\ <<dst.host, dst.node>> \in remote'
                     /\ <<src.host, src.node>> \notin remote']_vars

\* C8 witness: a Delete that failed at the mount was made again and archived
\* the directory, with what a pod had written into it
C8_Witness ==
    /\ last.op = "Delete" /\ last.retry /\ last.err = nil
    /\ LET dst == Resolve(Now, Comps(last.new))
       IN  <<dst.host, Append(dst.node, <<"data">>)>> \in remote

\* a step that is a call of Provision which returned the error err
ProvisionFailed(err) == IsCall /\ last'.op = "Provision" /\ last'.err = err

\* the volume directory of the request of that call
RequestedDir ==
    LET o == CHOOSE x \in last'.options : TRUE
    IN  Append(Comps(last'.em.mp),
               IF variant = "labels"
               THEN JoinWith(<<o.Tenant, o.Stack, o.Service, o.PVName>>, <<Dash>>)
               ELSE JoinWith(<<o.Namespace, o.PVName>>, <<Dash>>))

SepFree(f) == \A i \in 1..Len(f) : f[i] # Dash

SepFreeStrings == {f \in Strings : SepFree(f)}

\* C6: when pvName is applied to four fields that hold no "-", no other four
\* fields without "-" give the same name, and splitting the name on "-"
\* gives the four fields back.
C6_PvNameInjective ==
    (probe.applied /\ \A i \in 1..4 : SepFree(probe.fields[i])) =>
        /\ \A u \in SepFreeStrings \X SepFreeStrings \X SepFreeStrings \X SepFreeStrings :
              pvName(u[1], u[2], u[3], u[4]) = probe.name => u = probe.fields
        /\ SplitOn(probe.name, Dash) = probe.fields

\* C6 witness: pvName was applied to fields without "-" of which two, next
\* to each other, differ in length, and one is empty
C6_Witness ==
    /\ probe.applied
    /\ probe.fields = <<<<"a">>, <<"a", "a">>, <<>>, <<"a">>>>
    /\ probe.name = <<"a", Dash, "a", "a", Dash, Dash, "a">>

\* C10: of the calls in flight that resolve the same mount point and could
\* read the mount table, at most one has run the mount command; and a call
\* that has got to its MkdirAll or Rename under a mount point finds that
\* mount point in the mount table.
C10_MountOnceWhenConcurrent ==
    \A p \in Procs : \A q \in Procs :
        /\ procs[p].pc = "work" => \E i \in 1..Len(mounts) : mounts[i].mp = procs[p].mp
        /\ (p # q /\ procs[p].pc = "work" /\ procs[q].pc = "work"
            /\ procs[p].mp = procs[q].mp
            /\ procs[p].readable /\ procs[q].readable)
              => ~(procs[p].ranMount /\ procs[q].ranMount)

\* the fields the directory name of a volume is made from
NameFields(v) ==
    IF variant = "labels"
    THEN <<MapGet(v.Labels, "io.wise2c.tenant"), MapGet(v.Labels, "io.wise2c.stack"),
           MapGet(v.Labels, "io.wise2c.service"), v.Name>>
    ELSE <<(CHOOSE c \in v.ClaimRef : TRUE).Namespace, v.Name>>

\* C11: two volumes that Provision calls, in any interleaving, have returned
\* for requests on one export whose name fields differ are backed by
\* different directories.
C11_DistinctRequestsDistinctDirs ==
    \A v1 \in pvs : \A v2 \in pvs :
        (NameFields(v1) # NameFields(v2) /\ v1.Server = v2.Server
         /\ PathDir(v1.Path) = PathDir(v2.Path))
            => v1.Path # v2.Path

\* a step that is a call of Provision which returned no error
ProvisionSucceeded == IsCall /\ last'.op = "Provision" /\ last'.err = nil

\* C12: a Provision that returns no error has made exactly one directory on
\* the servers, the volume directory, which did not exist before the call.
C12_ProvisionMakesNewDir ==
    [][ProvisionSucceeded =>
        \A d \in {Resolve(NowNext, Comps(last'.dir))} :
            /\ d.host # LocalHost
            /\ <<d.host, d.node>> \notin remote
            /\ remote' = remote \cup {<<d.host, d.node>>}]_vars

\* the mount point of the newest entry of the mount table after the step is
\* one the table listed before the step
MountedOverListed ==
    /\ mounts' # mounts
    /\ \E i \in 1..Len(mounts) : mounts[i].mp = mounts'[Len(mounts')].mp

\* what no step does: drop an entry of the mount table, remove a directory of
\* this host (the mount point directories are among them) or the directory
\* of an export that is mounted; and a Delete changes the servers only
\* beneath the mount point it resolves
MountsAndMountPointsKept ==
    /\ IsPrefix(mounts, mounts')
    /\ localDirs \subseteq localDirs'
    /\ remote' # remote =>
          \A i \in 1..Len(mounts) : <<mounts[i].server, Comps(mounts[i].path)>> \in remote'
    /\ (IsCall /\ last'.op = "Delete" /\ remote' # remote) =>
          \A M \in {Resolve(NowNext, Comps(last'.em.mp))} :
              \A x \in (remote \ remote') \cup (remote' \ remote) :
                  x[1] = M.host /\ IsPrefix(M.node, x[2]) /\ x[2] # M.node

ErrNotExist == "no such file or directory"
ErrExist == "file exists"

\* a step that is a Delete of the volume that the call before it, a Delete
\* too, has archived
DeleteAgain ==
    /\ IsCall /\ last.op = "Delete" /\ last.err = nil
    /\ last'.op = "Delete" /\ last'.volume = last.volume

\* the directory the Delete before has archived is where it was put, and the
\* name it had is free
StillArchived ==
    /\ remote' = remote
    /\ \A d \in {Resolve(Now, Comps(last.new))} : <<d.host, d.node>> \in remote'
    /\ \A d \in {Resolve(Now, Comps(last.old))} : <<d.host, d.node>> \notin remote'

\* C14 as claimed: a Delete of the volume that the Delete before it has
\* archived returns the rename error for the missing source, and leaves the
\* archived directory in place and the original path absent.
C14_SecondDeleteRenameError ==
    [][DeleteAgain => (last'.err = ErrNotExist /\ StillArchived)]_vars

\* C14 amended: a Delete of the volume that the Delete before it has archived
\* returns the rename error for the missing source if it can read the mount
\* table, and in provisioner.go whenever its ensureMount succeeds; in
\* provisioner.go it returns the error of ensureMount otherwise; in these
\* cases the archived directory stays in place and the original path absent.
C14_SecondDeleteFails ==
    [][DeleteAgain =>
         /\ last'.em.readable => (last'.err = ErrNotExist /\ StillArchived)
         /\ variant = "labels" =>
               /\ last'.err # nil
               /\ last'.em.err = nil => last'.err = ErrNotExist
               /\ last'.em.err # nil => last'.err = last'.em.err
               /\ StillArchived]_vars

\* C14 witness: in provisioner.go the third call, a Delete, has found the
\* source missing and the archived directory there
C14_Witness ==
    /\ variant = "labels" /\ calls = 3
    /\ last.op = "Delete" /\ last.err = ErrNotExist
    /\ Exists(Now, Comps(last.new))
    /\ ~Exists(Now, Comps(last.old))

\* C17: an ensureMount that cannot read the mount table, with its mount point
\* listed there, does not find the mount and returns no error of its own: it
\* returns nil exactly when it has run the mount command and the mount table
\* has got one more entry for its target, and the error of MkdirAll or of the
\* mount command otherwise.
C17_UnreadableTableMountsAgain ==
    [][(IsCall /\ last'.em.called /\ ~last'.em.readable) =>
          /\ \E i \in 1..Len(mounts) : mounts[i].mp = last'.em.mp
          /\ ~last'.em.found
          /\ last'.em.err \in {nil, "mkdir failed", "mount failed"}
          /\ last'.em.err = nil =>
                /\ last'.em.ranMount
                /\ mounts' = Append(mounts, [server |-> last'.em.server,
                                             path |-> last'.em.path, mp |-> last'.em.mp])
          /\ last'.em.err # nil => mounts' = mounts]_vars

\* C17 witness: a Provision that could not read the mount table has mounted
\* its export, which was mounted already, once more and returned a volume
C17_Witness ==
    /\ last.op = "Provision" /\ last.err = nil /\ last.pv # {}
    /\ ~last.em.readable /\ ~last.em.found /\ last.em.ranMount
    /\ Len(mounts) >= 2
    /\ mounts[Len(mounts)].mp = last.em.mp
    /\ \E i \in 1..(Len(mounts) - 1) : mounts[i].mp = last.em.mp

\* a directory or file on a server that is an archived directory or lies in one
InArchive(x) == \E i \in 1..Len(x[2]) : Len(x[2][i]) > 0 /\ x[2][i][1] = "archived"

C16_RoundTrip ==
    [][(IsCall /\ last.op = "Provision" /\ last.err = nil
        /\ last'.op = "Delete" /\ last'.volume = last.pv) =>
          /\ last'.err # ErrNilClaimRef
          /\ last'.em.path = last.em.path
          /\ last'.em.mp = last.em.mp
          /\ last'.em.err = nil => last'.old = last.dir]_vars

\* the order of the steps of one call: isMounted; MkdirAll of the mount point
\* and the mount command if it answered false; then MkdirAll of the volume
\* directory or Rename; no step is made a second time
StepOrder ==
    {<<"idle", "idle">>, <<"idle", "isMounted">>,
     <<"isMounted", "work">>, <<"isMounted", "mkdirMp">>,
     <<"mkdirMp", "mount">>, <<"mkdirMp", "idle">>,
     <<"mount", "work">>, <<"mount", "idle">>,
     <<"work", "idle">>}

\* C18: in every interleaving, each call makes its steps in the order
\* isMounted, MkdirAll of the mount point, mount, and then MkdirAll of the
\* volume directory or Rename, none of them twice; it gets to the last of
\* them only with its mount point in the mount table, having found it there
\* or mounted it in the step before; a call whose MkdirAll or mount command
\* failed returns an error at once; and the directories on the servers are
\* changed, and directories other than mount points made, by that last step
\* alone.
C18_MountBeforeDirectory ==
    [][/\ \A p \in Procs :
             /\ procs'[p] # procs[p] => <<procs[p].pc, procs'[p].pc>> \in StepOrder
             /\ (procs'[p].pc = "work" /\ procs[p].pc # "work") =>
                   /\ \E i \in 1..Len(mounts') : mounts'[i].mp = procs[p].mp
                   /\ procs[p].pc = "mount" =>
                         /\ Len(mounts') = Len(mounts) + 1
                         /\ mounts'[Len(mounts')].mp = procs[p].mp
                   /\ procs[p].pc = "isMounted" => mounts' = mounts
             /\ (procs[p].pc \in {"mkdirMp", "mount"} /\ procs'[p].pc = "idle") =>
                   (procs'[p].err # nil /\ remote' = remote /\ pvs' = pvs)
       /\ remote' # remote =>
             \E p \in Procs : procs[p].pc = "work" /\ procs'[p].pc = "idle"
       /\ \A d \in localDirs' \ localDirs :
             \E p \in Procs : procs[p].pc = "mkdirMp" /\ procs'[p] # procs[p]
                              /\ IsPrefix(d, Comps(procs[p].mp))]_vars

\* C18 witness: a Provision and then a Delete have run to their end with one
\* mount made: the volume directory was made on the server and then archived
C18_Witness ==
    /\ \A p \in Procs : procs[p].pc = "idle"
    /\ calls = 2 /\ Len(mounts) = 1
    /\ \E v \in pvs : \E x \in remote :
          /\ x[1] = v.Server /\ InArchive(x)
          /\ <<v.Server, Comps(v.Path)>> \notin remote

====
